---------------------------- MODULE Spec2Model ----------------------------
(***************************************************************************)
(* A model of crytrade (src/main.py): the Binance kline fetcher with its   *)
(* retry loop, the indicator engine (RSI, Stochastic RSI, ATR), the signal *)
(* classifier, the timeframe selector and the report.                      *)
(*                                                                         *)
(* Numbers.  A Python value that is None, a float NaN, a float +inf or a   *)
(* finite float is a record [tag, n, d]; a finite value is the reduced     *)
(* fraction n/d.  Prices lie on a grid of 1/PriceScale, so every finite    *)
(* intermediate value of the engine is a fraction and is computed exactly. *)
(* Comparisons follow IEEE 754: any ordered comparison with NaN is false.  *)
(***************************************************************************)
EXTENDS Integers, Sequences, FiniteSets, TLC

VARIABLES
    pc,                   \* where the program is
    idx,                  \* position of the for loop in timeframes (0: not started)
    retries, delay,       \* arguments of the running get_historical_klines call
    attempt,              \* its loop counter
    requests,             \* requests.get calls it has issued
    slept,                \* seconds it has spent in time.sleep
    errors,               \* non-200 responses it has received
    prices,               \* its return value, as bound in analyze_best_timeframe
    rsi, stochrsi_k, stochrsi_d, atr,   \* the indicators of the iteration
    signals, signal_strength,           \* its SignalSet and score
    results,              \* timeframe -> SignalSet
    best_timeframe, best_signal_strength,
    report,               \* what check_crypto_rsi printed
    exchange,             \* the response bodies the exchange may answer with
    engine                \* the indicator engine tabulated: bars -> snapshot

vars == <<exchange, engine, pc, idx, retries, delay, attempt, requests, slept, errors, prices,
          rsi, stochrsi_k, stochrsi_d, atr, signals, signal_strength,
          results, best_timeframe, best_signal_strength, report>>

---------------------------------------------------------------------------
(* Bounds of the model *)

\* longest price history the exchange returns in the model (code: limit=100)
MaxLen == 32
\* px are multiples of 1/PriceScale of the quote currency
PriceScale == 1000
\* largest retries / delay argument tried in the fetcher-only specification
MaxRetries == 4
MaxDelay == 2
\* largest period argument tried on the indicator functions
MaxPeriod == 15

---------------------------------------------------------------------------
(* Program constants *)

\* period=14 (calculate_rsi, calculate_stochrsi, calculate_atr)
Period == 14
\* smoothK=3, smoothD=3 (calculate_stochrsi)
SmoothK == 3
SmoothD == 3
\* retries=3, delay=3 (get_historical_klines)
DefaultRetries == 3
DefaultDelay == 3
\* best_signal_strength = -1
InitialBestStrength == -1

---------------------------------------------------------------------------
(* Values: None, NaN, +inf, finite fractions *)

None == [tag |-> "None", n |-> 0, d |-> 1]
NaN == [tag |-> "NaN", n |-> 0, d |-> 1]
Inf == [tag |-> "Inf", n |-> 1, d |-> 0]

Abs(x) == IF x < 0 THEN -x ELSE x
Max2(a, b) == IF a >= b THEN a ELSE b
Min2(a, b) == IF a <= b THEN a ELSE b

RECURSIVE GCD(_, _)
GCD(a, b) == IF b = 0 THEN a ELSE GCD(b, a % b)

\* the finite value n/d (d # 0), reduced, with a positive denominator
Num(n, d) ==
    LET g == GCD(Abs(n), Abs(d))
        s == IF d < 0 THEN -1 ELSE 1
    IN  [tag |-> "Num", n |-> s * (n \div g), d |-> s * (d \div g)]

IsNum(v) == v.tag = "Num"
IsNone(v) == v.tag = "None"
IsNaN(v) == v.tag = "NaN"

\* float comparisons: false as soon as one side is NaN
Gt(a, b) ==
    CASE IsNaN(a) \/ IsNaN(b) -> FALSE
      [] a.tag = "Inf" -> b.tag # "Inf"
      [] b.tag = "Inf" -> FALSE
      [] OTHER -> a.n * b.d > b.n * a.d
Lt(a, b) == Gt(b, a)
Eq(a, b) ==
    CASE IsNaN(a) \/ IsNaN(b) -> FALSE
      [] a.tag = "Inf" \/ b.tag = "Inf" -> a.tag = b.tag
      [] OTHER -> a.n * b.d = b.n * a.d

\* float addition, subtraction and division (operands: NaN, +inf or finite)
Add(a, b) ==
    CASE IsNaN(a) \/ IsNaN(b) -> NaN
      [] a.tag = "Inf" \/ b.tag = "Inf" -> Inf
      [] OTHER -> Num(a.n * b.d + b.n * a.d, a.d * b.d)
Sub(a, b) ==
    CASE IsNaN(a) \/ IsNaN(b) -> NaN
      [] a.tag = "Inf" /\ b.tag = "Inf" -> NaN
      [] a.tag = "Inf" -> Inf
      [] OTHER -> Num(a.n * b.d - b.n * a.d, a.d * b.d)
\* the engine only divides non-negative values: x/0 is +inf for x > 0 and
\* NaN for x = 0 (numpy semantics, no exception); x/inf is 0
Div(a, b) ==
    CASE IsNaN(a) \/ IsNaN(b) -> NaN
      [] a.tag = "Inf" /\ b.tag = "Inf" -> NaN
      [] a.tag = "Inf" -> Inf
      [] b.tag = "Inf" -> Num(0, 1)
      [] b.n = 0 -> IF a.n = 0 THEN NaN ELSE Inf
      [] OTHER -> Num(a.n * b.d, a.d * b.n)

RECURSIVE Pow10(_)
Pow10(k) == IF k = 0 THEN 1 ELSE 10 * Pow10(k - 1)

\* round(v, digits) of a numpy float: NaN stays NaN (no exception), a finite
\* value goes to the nearest multiple of 10^-digits, ties to even
Round(v, digits) ==
    IF ~IsNum(v) THEN v
    ELSE LET s == Pow10(digits)
             q == (v.n * s) \div v.d
             r == (v.n * s) % v.d
             up == 2 * r > v.d \/ (2 * r = v.d /\ q % 2 = 1)
         IN  Num(IF up THEN q + 1 ELSE q, s)

---------------------------------------------------------------------------
(* pandas Series: a sequence of values; rolling windows *)

RECURSIVE SeqSum(_)
SeqSum(s) == IF s = <<>> THEN Num(0, 1) ELSE Add(Head(s), SeqSum(Tail(s)))

RECURSIVE SeqMin(_)
SeqMin(s) ==
    IF Len(s) = 1 THEN s[1]
    ELSE LET m == SeqMin(Tail(s)) IN IF Lt(s[1], m) THEN s[1] ELSE m

RECURSIVE SeqMax(_)
SeqMax(s) ==
    IF Len(s) = 1 THEN s[1]
    ELSE LET m == SeqMax(Tail(s)) IN IF Gt(s[1], m) THEN s[1] ELSE m

\* a Series holds its values: the sequence with every element computed
Series(f) == SubSeq(f, 1, Len(f))

\* the trailing window of at most w positions ending at i
Window(s, w, i) == SubSeq(s, Max2(1, i - w + 1), i)
\* Series.rolling(window=w, min_periods=mp): position i has a value when the
\* window holds at least mp observations (a NaN in a full window of w with
\* mp = w leaves fewer than mp)
\* the observations of a window are its non-NaN entries
RECURSIVE Observations(_)
Observations(s) ==
    IF s = <<>> THEN <<>>
    ELSE IF IsNaN(Head(s)) THEN Observations(Tail(s))
         ELSE <<Head(s)>> \o Observations(Tail(s))

RollingMeanAt(s, w, mp, i) ==
    LET obs == Observations(Window(s, w, i))
    IN  IF Len(obs) < mp \/ Len(obs) = 0 THEN NaN
        ELSE Div(SeqSum(obs), Num(Len(obs), 1))
RollingMinAt(s, w, i) ==
    LET obs == Observations(Window(s, w, i))
    IN  IF Len(obs) < w \/ Len(obs) = 0 THEN NaN ELSE SeqMin(obs)
RollingMaxAt(s, w, i) ==
    LET obs == Observations(Window(s, w, i))
    IN  IF Len(obs) < w \/ Len(obs) = 0 THEN NaN ELSE SeqMax(obs)

---------------------------------------------------------------------------
(* Indicator engine *)

\* Series(prices).diff(): NaN at the first position
Delta(px, i) == IF i = 1 THEN NaN ELSE Num(px[i] - px[i - 1], 1)
\* delta.where(delta > 0, 0) and -delta.where(delta < 0, 0)
GainSeries(px) ==
    Series([i \in 1..Len(px) |->
        IF Gt(Delta(px, i), Num(0, 1)) THEN Delta(px, i) ELSE Num(0, 1)])
LossSeries(px) ==
    Series([i \in 1..Len(px) |->
        IF Lt(Delta(px, i), Num(0, 1))
        THEN Sub(Num(0, 1), Delta(px, i)) ELSE Num(0, 1)])

\* mutant: the length guard lets a history one bar short through
calculate_rsi_OffByOne(px, period) ==
    IF Len(px) < period - 1 THEN None
    ELSE IF Len(px) = 0 THEN None
    ELSE LET last == Len(px)
             avg_gain == RollingMeanAt(GainSeries(px), period, 1, last)
             avg_loss == RollingMeanAt(LossSeries(px), period, 1, last)
             rs == Div(avg_gain, avg_loss)
         IN  Sub(Num(100, 1), Div(Num(100, 1), Add(Num(1, 1), rs)))

calculate_rsi(px, period) ==
    IF Len(px) < period THEN None
    ELSE IF Len(px) = 0 THEN None
    ELSE LET last == Len(px)
             avg_gain == RollingMeanAt(GainSeries(px), period, 1, last)
             avg_loss == RollingMeanAt(LossSeries(px), period, 1, last)
             rs == Div(avg_gain, avg_loss)
         IN  Sub(Num(100, 1), Div(Num(100, 1), Add(Num(1, 1), rs)))

\* pd.Series([calculate_rsi(prices[:i+1], period) ...]): None becomes NaN
RsiSeries(px, period) ==
    Series([i \in 1..Len(px) |->
        LET r == calculate_rsi(SubSeq(px, 1, i), period)
        IN  IF IsNone(r) THEN NaN ELSE r])

StochRsiSeries(rsi_series, period) ==
    Series([i \in 1..Len(rsi_series) |->
        LET min_rsi == RollingMinAt(rsi_series, period, i)
            max_rsi == RollingMaxAt(rsi_series, period, i)
        IN  Div(Sub(rsi_series[i], min_rsi), Sub(max_rsi, min_rsi))])

RollingMeanSeries(s, w) ==
    Series([i \in 1..Len(s) |-> RollingMeanAt(s, w, w, i)])

\* returns the pair <<stochrsi_k, stochrsi_d>>
calculate_stochrsi(px, period, smoothK, smoothD) ==
    IF Len(px) < period THEN <<None, None>>
    ELSE LET last == Len(px)
             rsi_series == RsiSeries(px, period)
             stochrsi == StochRsiSeries(rsi_series, period)
             k_series == RollingMeanSeries(stochrsi, smoothK)
             d_series == RollingMeanSeries(k_series, smoothD)
         IN  <<Round(k_series[last], 2), Round(d_series[last], 2)>>

\* a bar is <<open, high, low, close>> in units of 1/PriceScale
High(bar) == bar[2]
Low(bar) == bar[3]
Close(bar) == bar[4]

\* max(axis=1) of high-low, |high-close.shift()|, |low-close.shift()|; the
\* first row has no previous close and max skips the two NaN cells
TrueRange(px) ==
    Series([i \in 1..Len(px) |->
        LET high_low == High(px[i]) - Low(px[i])
        IN  IF i = 1 THEN Num(high_low, PriceScale)
            ELSE LET high_close == Abs(High(px[i]) - Close(px[i - 1]))
                     low_close == Abs(Low(px[i]) - Close(px[i - 1]))
                 IN  Num(Max2(high_low, Max2(high_close, low_close)), PriceScale)])

calculate_atr(px, period) ==
    IF Len(px) < period THEN None
    ELSE IF Len(px) = 0 THEN None
    ELSE Round(RollingMeanAt(TrueRange(px), period, period, Len(px)), 5)

ClosingPrices(px) == Series([i \in 1..Len(px) |-> Close(px[i])])

---------------------------------------------------------------------------
(* Price histories the exchange may return *)

\* close-to-close moves of each market shape, repeated cyclically
Shapes == {"flat", "wave", "slide", "climb"}
Cycle(shape) ==
    CASE shape = "flat" -> <<0>>
      [] shape = "wave" -> <<1, 1, 1, 1, 1, 1, -1, -1, -1, -1, -1, -1>>
      [] shape = "slide" -> <<-3, -3, -3, -3, 1>>
      [] shape = "climb" -> <<3, 3, 3, 3, -1>>

RECURSIVE CloseAt(_, _)
CloseAt(shape, i) ==
    IF i = 1 THEN PriceScale
    ELSE CloseAt(shape, i - 1) + Cycle(shape)[((i - 2) % Len(Cycle(shape))) + 1]

\* candle i opens at the previous close
BarAt(shape, i) ==
    LET c == CloseAt(shape, i)
        o == IF i = 1 THEN c ELSE CloseAt(shape, i - 1)
    IN  <<o, Max2(o, c), Min2(o, c), c>>

History(shape, len) == Series([i \in 1..len |-> BarAt(shape, i)])

\* lengths around every threshold of the engine: below the period, at the
\* period, and from two periods on, where the rolling windows of
\* calculate_stochrsi fill one after the other
HistoryLens == {1, Period - 1, Period} \cup (2 * Period .. MaxLen)
Histories == {History(sh, len) : sh \in Shapes, len \in HistoryLens}


\* lines 123-126: the engine's results for a list of bars
IndicatorSnapshot(bars) ==
    LET closing_prices == ClosingPrices(bars)
        kd == calculate_stochrsi(closing_prices, Period, SmoothK, SmoothD)
    IN  [rsi |-> calculate_rsi(closing_prices, Period),
         stochrsi_k |-> kd[1], stochrsi_d |-> kd[2],
         atr |-> calculate_atr(bars, Period)]
\* the engine is a pure function: its results for the histories of the
\* model are computed once, in the initial state, and looked up afterwards
EngineTable == [h \in Histories |-> IndicatorSnapshot(h)]
Indicators(bars) == engine[bars]

---------------------------------------------------------------------------
(* Signal classifier *)

\* Python's `sub in s` on strings
Contains(sub, s) ==
    \E i \in 1..(Len(s) - Len(sub) + 1) : SubSeq(s, i, i + Len(sub) - 1) = sub

RsiOverbought == 70
RsiOversold == 30
StochOverbought == Num(8, 10)
StochOversold == Num(2, 10)
AtrHigh == Num(2, 1000)

RsiSignal(r) ==
    IF Gt(r, Num(RsiOverbought, 1)) THEN "Overbought - Strong Sell"
    ELSE IF Lt(r, Num(RsiOversold, 1)) THEN "Oversold - Strong Buy"
    ELSE "Neutral"

\* mutant: the thresholds 0.8 and 0.2 taken inclusively
StochRsiSignal_Inclusive(k, d) ==
    IF Gt(k, StochOverbought) \/ Eq(k, StochOverbought) THEN "Strong Sell"
    ELSE IF Lt(k, StochOversold) \/ Eq(k, StochOversold) THEN "Strong Buy"
    ELSE IF Gt(k, d) THEN "Buy"
    ELSE "Sell"

StochRsiSignal(k, d) ==
    IF Gt(k, StochOverbought) THEN "Strong Sell"
    ELSE IF Lt(k, StochOversold) THEN "Strong Buy"
    ELSE IF Gt(k, d) THEN "Buy"
    ELSE "Sell"

VolatilitySignal(a) ==
    IF Eq(a, Num(0, 1)) THEN "Sideways (Low volatility)"
    ELSE IF Gt(a, AtrHigh) THEN "High Volatility"
    ELSE "Stable Market"

\* mutant: "Sell" tested before "Buy"
EstimatedHoldTime_SellFirst(rsi_signal, stochrsi_signal) ==
    IF Contains("Sell", rsi_signal) \/ Contains("Sell", stochrsi_signal)
    THEN "Exit within hours"
    ELSE IF Contains("Buy", rsi_signal) \/ Contains("Buy", stochrsi_signal)
    THEN "Hold for 1-3 days"
    ELSE "Wait for a clear signal"

EstimatedHoldTime(rsi_signal, stochrsi_signal) ==
    IF Contains("Buy", rsi_signal) \/ Contains("Buy", stochrsi_signal)
    THEN "Hold for 1-3 days"
    ELSE IF Contains("Sell", rsi_signal) \/ Contains("Sell", stochrsi_signal)
    THEN "Exit within hours"
    ELSE "Wait for a clear signal"

\* the dict keys "RSI Signal", "StochRSI Signal", "ATR Signal" and
\* "Estimated Time to Hold" are the fields below
get_trade_signal(r, k, d, a) ==
    [rsi_signal |-> RsiSignal(r),
     stochrsi_signal |-> StochRsiSignal(k, d),
     volatility_signal |-> VolatilitySignal(a),
     estimated_hold_time |-> EstimatedHoldTime(RsiSignal(r), StochRsiSignal(k, d))]

NoSignals ==
    [rsi_signal |-> "", stochrsi_signal |-> "", volatility_signal |-> "",
     estimated_hold_time |-> ""]

---------------------------------------------------------------------------
(* Timeframe selector: the score of a SignalSet *)

Either(label, sig) ==
    Contains(label, sig.rsi_signal) \/ Contains(label, sig.stochrsi_signal)

\* mutant: every label adds on its own instead of once per test
Count(label, sig) ==
    (IF Contains(label, sig.rsi_signal) THEN 1 ELSE 0)
    + (IF Contains(label, sig.stochrsi_signal) THEN 1 ELSE 0)
SignalStrength_PerLabel(sig) ==
    2 * Count("Strong Buy", sig) + Count("Buy", sig)
    - 2 * Count("Strong Sell", sig) - Count("Sell", sig)

SignalStrength(sig) ==
    (IF Either("Strong Buy", sig) THEN 2 ELSE 0)
    + (IF Either("Buy", sig) THEN 1 ELSE 0)
    - (IF Either("Strong Sell", sig) THEN 2 ELSE 0)
    - (IF Either("Sell", sig) THEN 1 ELSE 0)

\* mutants of the comparison of line 146: ties replace the running best; the
\* comparison is turned round
Improves_GE(strength, best) == strength >= best
Improves_LT(strength, best) == strength < best
\* line 146: the running best is replaced on a strictly greater score
Improves(strength, best) == strength > best

\* line 128: the check that decides whether the timeframe is skipped
IndicatorMissing(r, k, a) == IsNone(r) \/ IsNone(k) \/ IsNone(a)


---------------------------------------------------------------------------
(* PriceSeries fetcher: get_historical_klines *)

\* the value None and a list of OHLC bars, as the value of `prices`
Unavailable == [isNone |-> TRUE, bars |-> <<>>]
Klines(bars) == [isNone |-> FALSE, bars |-> bars]
\* `not prices`
Falsy(p) == p.isNone \/ p.bars = <<>>

\* a row of the exchange's JSON array: open time, open, high, low, close, volume
KlineRow(bar, i) == <<i, bar[1], bar[2], bar[3], bar[4], 0>>
KlineRows(bars) == Series([i \in 1..Len(bars) |-> KlineRow(bars[i], i)])

\* response bodies: a JSON array of rows (possibly empty), or a body that
\* response.json() or the float conversion rejects
JsonBody(rows) == [kind |-> "json", data |-> rows]
GarbageBody == [kind |-> "garbage", data |-> <<>>]
Bodies == {JsonBody(KlineRows(h)) : h \in Histories} \cup {JsonBody(<<>>), GarbageBody}
ErrorStatusCodes == {429, 500}

\* lines 19: [float(entry[1]), float(entry[2]), float(entry[3]), float(entry[4])]
ToOHLC(data) ==
    Series([i \in 1..Len(data) |-> <<data[i][2], data[i][3], data[i][4], data[i][5]>>])

\* lines 13-22: the handling of an HTTP-200 response
ParseKlines(body) ==
    IF body.kind # "json" THEN Unavailable
    ELSE IF body.data = <<>> THEN Unavailable
    ELSE Klines(ToOHLC(body.data))

\* mutant: one round too many
MoreAttempts_Inclusive(a, n) == a <= n
\* line 10: `for attempt in range(retries)` has another round
MoreAttempts(a, n) == a < n
\* line 25: time.sleep(delay) after a non-200 response
SleepAfterError(total, dly) == total + dly

UnchangedAnalysis ==
    UNCHANGED <<exchange, engine, idx, rsi, stochrsi_k, stochrsi_d, atr, signals, signal_strength,
                results, best_timeframe, best_signal_strength, report>>

Respond200(body) ==
    /\ pc = "fetch"
    /\ MoreAttempts(attempt, retries)
    /\ requests' = requests + 1
    /\ prices' = ParseKlines(body)
    /\ pc' = "fetched"
    /\ UNCHANGED <<retries, delay, attempt, slept, errors>>
    /\ UnchangedAnalysis

RespondError(status) ==
    /\ pc = "fetch"
    /\ MoreAttempts(attempt, retries)
    /\ status # 200
    /\ requests' = requests + 1
    /\ errors' = errors + 1
    /\ slept' = SleepAfterError(slept, delay)
    /\ attempt' = attempt + 1
    /\ UNCHANGED <<pc, retries, delay, prices>>
    /\ UnchangedAnalysis

RetriesExhausted ==
    /\ pc = "fetch"
    /\ ~MoreAttempts(attempt, retries)
    /\ prices' = Unavailable
    /\ pc' = "fetched"
    /\ UNCHANGED <<retries, delay, attempt, requests, slept, errors>>
    /\ UnchangedAnalysis

FetchNext ==
    \/ \E body \in exchange : Respond200(body)
    \/ \E status \in ErrorStatusCodes : RespondError(status)
    \/ RetriesExhausted

---------------------------------------------------------------------------
(* Timeframe selector and report: analyze_best_timeframe, check_crypto_rsi *)

Timeframes == <<"15m", "1h", "4h", "1d">>
timeframe == Timeframes[idx]
\* best_timeframe = None
NoBest == "None"
EmptyResults == [t \in {} |-> NoSignals]
NoReport == [kind |-> "", timeframe |-> NoBest, signals |-> NoSignals]

\* results[timeframe] = signals
Record(res, tf, sig) ==
    [t \in DOMAIN res \cup {tf} |-> IF t = tf THEN sig ELSE res[t]]

\* the frame of the finished get_historical_klines call is gone
DropFetchFrame ==
    /\ attempt' = 0 /\ requests' = 0 /\ slept' = 0 /\ errors' = 0
    /\ UNCHANGED <<exchange, engine, retries, delay>>
UnchangedFetch ==
    UNCHANGED <<exchange, engine, retries, delay, attempt, requests, slept, errors>>

\* line 118-119: the loop takes the next timeframe and calls the fetcher
\* with its default arguments; the locals of the last iteration are dead
LoopNext ==
    /\ pc = "loop"
    /\ idx < Len(Timeframes)
    /\ idx' = idx + 1
    /\ retries' = DefaultRetries
    /\ delay' = DefaultDelay
    /\ attempt' = 0
    /\ requests' = 0
    /\ slept' = 0
    /\ errors' = 0
    /\ prices' = Unavailable
    /\ rsi' = None /\ stochrsi_k' = None /\ stochrsi_d' = None /\ atr' = None
    /\ signals' = NoSignals
    /\ signal_strength' = 0
    /\ pc' = "fetch"
    /\ UNCHANGED <<exchange, engine, results, best_timeframe,
                   best_signal_strength, report>>

\* lines 120-121
SkipUnavailable ==
    /\ pc = "fetched"
    /\ Falsy(prices)
    /\ pc' = "loop"
    /\ UNCHANGED <<idx, prices, rsi, stochrsi_k, stochrsi_d, atr, signals,
                   signal_strength, results, best_timeframe,
                   best_signal_strength, report>>
    /\ DropFetchFrame

\* lines 123-129
AnalyzeSkip ==
    /\ pc = "fetched"
    /\ ~Falsy(prices)
    /\ LET ind == Indicators(prices.bars)
       IN  /\ IndicatorMissing(ind.rsi, ind.stochrsi_k, ind.atr)
           /\ rsi' = ind.rsi
           /\ stochrsi_k' = ind.stochrsi_k
           /\ stochrsi_d' = ind.stochrsi_d
           /\ atr' = ind.atr
    /\ pc' = "loop"
    /\ UNCHANGED <<idx, prices, signals, signal_strength, results,
                   best_timeframe, best_signal_strength, report>>
    /\ DropFetchFrame

\* lines 123-148
AnalyzeRecord ==
    /\ pc = "fetched"
    /\ ~Falsy(prices)
    /\ LET ind == Indicators(prices.bars)
           sig == get_trade_signal(ind.rsi, ind.stochrsi_k, ind.stochrsi_d, ind.atr)
           strength == SignalStrength(sig)
       IN  /\ ~IndicatorMissing(ind.rsi, ind.stochrsi_k, ind.atr)
           /\ rsi' = ind.rsi
           /\ stochrsi_k' = ind.stochrsi_k
           /\ stochrsi_d' = ind.stochrsi_d
           /\ atr' = ind.atr
           /\ signals' = sig
           /\ results' = Record(results, timeframe, sig)
           /\ signal_strength' = strength
           /\ IF Improves(strength, best_signal_strength)
              THEN /\ best_signal_strength' = strength
                   /\ best_timeframe' = timeframe
              ELSE UNCHANGED <<best_signal_strength, best_timeframe>>
    /\ pc' = "loop"
    /\ UNCHANGED <<idx, prices, report>>
    /\ DropFetchFrame

\* line 150
LoopEnd ==
    /\ pc = "loop"
    /\ idx = Len(Timeframes)
    /\ pc' = "returned"
    /\ UNCHANGED <<idx, prices, rsi, stochrsi_k, stochrsi_d, atr, signals,
                   signal_strength, results, best_timeframe,
                   best_signal_strength, report>>
    /\ UnchangedFetch

\* lines 157-162: `if best_timeframe:` and the lookup analysis_results[best_timeframe]
Presented(best, res) ==
    IF best # NoBest
    THEN IF best \in DOMAIN res
         THEN [kind |-> "best", timeframe |-> best, signals |-> res[best]]
         ELSE [kind |-> "KeyError", timeframe |-> best, signals |-> NoSignals]
    ELSE [kind |-> "no strong signal", timeframe |-> NoBest, signals |-> NoSignals]

Report ==
    /\ pc = "returned"
    /\ report' = Presented(best_timeframe, results)
    /\ pc' = "done"
    /\ UNCHANGED <<idx, prices, rsi, stochrsi_k, stochrsi_d, atr, signals,
                   signal_strength, results, best_timeframe, best_signal_strength>>
    /\ UnchangedFetch

\* lines 112-116: the state at the head of the loop
Init ==
    /\ exchange = Bodies
    /\ engine = EngineTable
    /\ pc = "loop"
    /\ idx = 0
    /\ retries = DefaultRetries
    /\ delay = DefaultDelay
    /\ attempt = 0
    /\ requests = 0
    /\ slept = 0
    /\ errors = 0
    /\ prices = Unavailable
    /\ rsi = None /\ stochrsi_k = None /\ stochrsi_d = None /\ atr = None
    /\ signals = NoSignals
    /\ signal_strength = 0
    /\ results = EmptyResults
    /\ best_timeframe = NoBest
    /\ best_signal_strength = InitialBestStrength
    /\ report = NoReport

Next ==
    \/ LoopNext
    \/ \E body \in exchange : Respond200(body)
    \/ \E status \in ErrorStatusCodes : RespondError(status)
    \/ RetriesExhausted
    \/ SkipUnavailable
    \/ AnalyzeSkip
    \/ AnalyzeRecord
    \/ LoopEnd
    \/ Report

Spec == Init /\ [][Next]_vars


---------------------------------------------------------------------------
(* One call of get_historical_klines with any retries and delay.  Every    *)
(* request is answered (the responses are the input), so the loop goes on: *)
(* weak fairness of the call's steps.                                      *)

FetchInit ==
    /\ exchange = Bodies
    /\ engine = EngineTable
    /\ pc = "fetch"
    /\ idx = 1
    /\ retries \in 0..MaxRetries
    /\ delay \in 0..MaxDelay
    /\ attempt = 0
    /\ requests = 0
    /\ slept = 0
    /\ errors = 0
    /\ prices = Unavailable
    /\ rsi = None /\ stochrsi_k = None /\ stochrsi_d = None /\ atr = None
    /\ signals = NoSignals
    /\ signal_strength = 0
    /\ results = EmptyResults
    /\ best_timeframe = NoBest
    /\ best_signal_strength = InitialBestStrength
    /\ report = NoReport

FetchSpec == FetchInit /\ [][FetchNext]_vars /\ WF_vars(FetchNext)

---------------------------------------------------------------------------
(* The classifier and the score on a grid of inputs around every threshold *)

Hundredths(ns) == {Num(n, 100) : n \in ns}
RsiInputs ==
    {NaN} \cup Hundredths({0, 2999, 3000, 3001, 5000, 6999, 7000, 7001, 10000})
StochKInputs == {NaN} \cup Hundredths({0, 19, 20, 21, 50, 79, 80, 81, 100})
StochDInputs == {NaN} \cup Hundredths({0, 20, 50, 80, 100})
AtrInputs == {NaN} \cup {Num(n, 100000) : n \in {0, 1, 199, 200, 201}}

ClassifierInit ==
    /\ exchange = {}
    /\ engine = [h \in {} |-> None]
    /\ pc = "classify"
    /\ idx = 1
    /\ retries = DefaultRetries
    /\ delay = DefaultDelay
    /\ attempt = 0
    /\ requests = 0
    /\ slept = 0
    /\ errors = 0
    /\ prices = Unavailable
    /\ rsi \in RsiInputs
    /\ stochrsi_k \in StochKInputs
    /\ stochrsi_d \in StochDInputs
    /\ atr \in AtrInputs
    /\ signals = NoSignals
    /\ signal_strength = 0
    /\ results = EmptyResults
    /\ best_timeframe = NoBest
    /\ best_signal_strength = InitialBestStrength
    /\ report = NoReport

\* line 131
Classify ==
    /\ pc = "classify"
    /\ signals' = get_trade_signal(rsi, stochrsi_k, stochrsi_d, atr)
    /\ pc' = "score"
    /\ UNCHANGED <<idx, prices, rsi, stochrsi_k, stochrsi_d, atr, signal_strength,
                   results, best_timeframe, best_signal_strength, report>>
    /\ UnchangedFetch

\* lines 135-143
Score ==
    /\ pc = "score"
    /\ signal_strength' = SignalStrength(signals)
    /\ pc' = "scored"
    /\ UNCHANGED <<idx, prices, rsi, stochrsi_k, stochrsi_d, atr, signals,
                   results, best_timeframe, best_signal_strength, report>>
    /\ UnchangedFetch

ClassifierNext == Classify \/ Score

ClassifierSpec == ClassifierInit /\ [][ClassifierNext]_vars


---------------------------------------------------------------------------
(* Properties *)

\* the selector has finished an iteration for Timeframes[idx]
IterationDone == pc = "loop" /\ idx >= 1
Finished == pc \in {"returned", "done"}
ScoreOf(t) == SignalStrength(results[t])
Position(t) == CHOOSE i \in 1..Len(Timeframes) : Timeframes[i] = t
\* the recorded timeframes whose score is maximal among the recorded ones
Maximal == {t \in DOMAIN results : \A u \in DOMAIN results : ScoreOf(u) <= ScoreOf(t)}
EarliestMaximal == CHOOSE t \in Maximal : \A u \in Maximal : Position(t) <= Position(u)
\* an indicator value that is present: neither None nor NaN
Present(v) == IsNum(v)
NeutralSidewaysSell(sig) ==
    /\ sig.rsi_signal = "Neutral"
    /\ sig.volatility_signal = "Sideways (Low volatility)"
    /\ sig.stochrsi_signal = "Sell"

\* C1 as stated: the "no strong signal" outcome is produced if and only if
\* the results map is empty.
C1_NoSignalIffNoResult ==
    pc = "done" => (report.kind = "no strong signal" <=> DOMAIN results = {})

\* C1 amended: the "no strong signal" outcome is produced if and only if no
\* recorded timeframe scored above the sentinel -1 (so also when nothing was
\* recorded); otherwise a recorded best timeframe is reported with its full
\* SignalSet.
C1_NoSignalIffNoneAboveSentinel ==
    pc = "done" =>
        /\ report.kind = "no strong signal"
              <=> \A t \in DOMAIN results : ScoreOf(t) <= InitialBestStrength
        /\ DOMAIN results = {} => report.kind = "no strong signal"
        /\ report.kind # "no strong signal" =>
              /\ report.kind = "best"
              /\ report.timeframe \in DOMAIN results
              /\ report.signals = results[report.timeframe]

\* a run that recorded a SignalSet and still reported "no strong signal"
C1_Witness ==
    pc = "done" /\ DOMAIN results # {} /\ report.kind = "no strong signal"

\* C2 as stated: when two or more recorded timeframes share the maximal
\* score, the best timeframe returned is the earliest of them.
C2_TieReturnsEarliest ==
    (Finished /\ Cardinality(Maximal) >= 2) => best_timeframe = EarliestMaximal

\* C2 amended: when two or more recorded timeframes share the maximal score
\* and that score exceeds the sentinel -1, the best timeframe is the earliest
\* of them in the order 15m, 1h, 4h, 1d; a tie at a score of -1 or less
\* returns no best timeframe.
C2_TieAboveSentinelReturnsEarliest ==
    (pc \in {"loop", "returned", "done"} /\ Cardinality(Maximal) >= 2) =>
        IF ScoreOf(EarliestMaximal) > InitialBestStrength
        THEN best_timeframe = EarliestMaximal
        ELSE best_timeframe = NoBest

\* a finished run with a tie at a maximal score above the sentinel
C2_Witness ==
    /\ Finished
    /\ Cardinality(Maximal) >= 2
    /\ ScoreOf(EarliestMaximal) > InitialBestStrength
    /\ best_timeframe = EarliestMaximal
    /\ best_timeframe # Timeframes[1]

\* C3 as stated: "Oversold - Strong Buy" with StochRSI "Buy" scores +4.
C3_StrongBuyAndBuyScoresFour ==
    (pc = "scored" /\ signals.rsi_signal = "Oversold - Strong Buy"
                   /\ signals.stochrsi_signal = "Buy") => signal_strength = 4

\* C3 amended: the score adds each of the four tests once, whichever of the
\* two labels satisfies it: "Oversold - Strong Buy" with StochRSI "Buy"
\* scores +3 (+2 for "Strong Buy", +1 for "Buy").
C3_StrongBuyAndBuyScoresThree ==
    (pc = "scored" /\ signals.rsi_signal = "Oversold - Strong Buy"
                   /\ signals.stochrsi_signal = "Buy") => signal_strength = 3

C3_Witness ==
    /\ pc = "scored"
    /\ signals.rsi_signal = "Oversold - Strong Buy"
    /\ signals.stochrsi_signal = "Buy"
    /\ signal_strength = 3

\* C4: a SignalSet is recorded for a timeframe only when rsi, stochrsi_k,
\* stochrsi_d and atr are all present (neither None nor NaN); otherwise the
\* timeframe is skipped.
C4_RecordedOnlyWhenAllPresent ==
    IterationDone =>
        (timeframe \in DOMAIN results
            <=> /\ ~Falsy(prices)
                /\ Present(rsi) /\ Present(stochrsi_k)
                /\ Present(stochrsi_d) /\ Present(atr))

Is(v, n, d) == IsNum(v) /\ v.n * d = n * v.d
Above(v, n, d) == IsNum(v) /\ v.n * d > n * v.d
Below(v, n, d) == IsNum(v) /\ v.n * d < n * v.d
KAboveD ==
    IsNum(stochrsi_k) /\ IsNum(stochrsi_d)
        /\ stochrsi_k.n * stochrsi_d.d > stochrsi_d.n * stochrsi_k.d
C6_BoundariesAreNotExtreme ==
    pc \in {"score", "scored"} =>
        /\ (Is(rsi, 70, 1) \/ Is(rsi, 30, 1)) => signals.rsi_signal = "Neutral"
        /\ (Is(stochrsi_k, 8, 10) \/ Is(stochrsi_k, 2, 10)) =>
              signals.stochrsi_signal = IF KAboveD THEN "Buy" ELSE "Sell"
        /\ (IsNum(stochrsi_k) /\ stochrsi_k = stochrsi_d
                /\ ~Above(stochrsi_k, 8, 10) /\ ~Below(stochrsi_k, 2, 10)) =>
              signals.stochrsi_signal = "Sell"
        /\ Is(atr, 2, 1000) => signals.volatility_signal = "Stable Market"
        /\ Is(atr, 0, 1) => signals.volatility_signal = "Sideways (Low volatility)"
        /\ Above(stochrsi_k, 8, 10) => signals.stochrsi_signal = "Strong Sell"
        /\ Below(stochrsi_k, 2, 10) => signals.stochrsi_signal = "Strong Buy"
        /\ (IsNum(stochrsi_k) /\ ~Above(stochrsi_k, 8, 10)
                /\ ~Below(stochrsi_k, 2, 10)) =>
              signals.stochrsi_signal = IF KAboveD THEN "Buy" ELSE "Sell"

C6_Witness ==
    /\ pc = "scored"
    /\ Is(rsi, 70, 1) /\ Is(stochrsi_k, 8, 10) /\ Is(stochrsi_d, 8, 10)
    /\ Is(atr, 2, 1000)
    /\ signals.rsi_signal = "Neutral"
    /\ signals.stochrsi_signal = "Sell"
    /\ signals.volatility_signal = "Stable Market"

\* C7: a sequence shorter than the period makes calculate_rsi return None,
\* calculate_stochrsi return (None, None) and calculate_atr return None, for
\* every period tried, and analyze_best_timeframe records no result for a
\* timeframe whose history is shorter than the default period.
C7_ShortHistoryIsAbsent ==
    pc \in {"fetched", "loop"} =>
        /\ \A period \in (Len(prices.bars) + 1)..MaxPeriod :
              /\ calculate_rsi(ClosingPrices(prices.bars), period) = None
              /\ calculate_stochrsi(ClosingPrices(prices.bars), period,
                                    SmoothK, SmoothD) = <<None, None>>
              /\ calculate_atr(prices.bars, period) = None
        /\ (IterationDone /\ Len(prices.bars) < Period) =>
              /\ rsi = None /\ stochrsi_k = None /\ stochrsi_d = None
              /\ atr = None
              /\ timeframe \notin DOMAIN results

\* a non-empty history shorter than the period was analysed and skipped
C7_Witness ==
    /\ IterationDone
    /\ ~Falsy(prices)
    /\ Len(prices.bars) = Period - 1
    /\ rsi = None /\ atr = None
    /\ timeframe \notin DOMAIN results

\* C8: a call of get_historical_klines issues at most `retries` requests,
\* none after the first 200 response, sleeps `delay` after each non-200
\* response, returns a non-empty list of bars or None - None after `retries`
\* non-200 responses - and terminates.
FetchSafe ==
    /\ requests <= retries
    /\ requests - errors \in {0, 1}
    /\ requests > errors => pc = "fetched"
    /\ slept = delay * errors
    /\ pc = "fetched" =>
          /\ prices = Unavailable \/ (~prices.isNone /\ Len(prices.bars) > 0)
          /\ errors = retries => prices = Unavailable
          /\ (requests = errors) => errors = retries
C8_FetchTerminatesWithinRetries == []FetchSafe /\ <>(pc = "fetched")

\* the default three attempts all failed
C8_Witness ==
    /\ pc = "fetched"
    /\ retries = DefaultRetries
    /\ delay > 0
    /\ requests = retries /\ errors = retries
    /\ slept = retries * delay
    /\ prices = Unavailable

\* C9: between iterations and at return the best-so-far is none with score
\* -1, or a recorded timeframe whose score is best_signal_strength, which is
\* at least the score of every recorded timeframe and never decreases; the
\* lookup of the best timeframe in the report never fails.
BestConsistent ==
    /\ \/ best_timeframe = NoBest /\ best_signal_strength = InitialBestStrength
       \/ /\ best_timeframe \in DOMAIN results
          /\ ScoreOf(best_timeframe) = best_signal_strength
    /\ \A t \in DOMAIN results : ScoreOf(t) <= best_signal_strength
    /\ report.kind # "KeyError"
C9_BestSoFarConsistent ==
    []BestConsistent /\ [][best_signal_strength' >= best_signal_strength]_vars

\* a best timeframe was reported although another timeframe scored lower
C9_Witness ==
    /\ pc = "done"
    /\ report.kind = "best"
    /\ \E t \in DOMAIN results : ScoreOf(t) < best_signal_strength
    /\ \E t \in DOMAIN results : ScoreOf(t) < InitialBestStrength

\* C10: the StochRSI signal is always one of the four labels, so the hold
\* time is "Hold for 1-3 days" or "Exit within hours", never "Wait for a
\* clear signal", and "Buy" wins over "Sell".
C10_HoldTimeIsNeverWait ==
    pc \in {"score", "scored"} =>
        /\ signals.stochrsi_signal \in {"Strong Sell", "Strong Buy", "Buy", "Sell"}
        /\ signals.estimated_hold_time \in {"Hold for 1-3 days", "Exit within hours"}
        /\ signals.estimated_hold_time = "Hold for 1-3 days"
              <=> signals.stochrsi_signal \in {"Strong Buy", "Buy"}
                    \/ signals.rsi_signal = "Oversold - Strong Buy"

C10_Witness ==
    /\ pc = "scored"
    /\ signals.rsi_signal = "Overbought - Strong Sell"
    /\ signals.stochrsi_signal = "Buy"
    /\ signals.estimated_hold_time = "Hold for 1-3 days"

=============================================================================
